---- MODULE Spec2Model ----
(***************************************************************************)
(* LocalCodewindManager (dev/src/codewind/connection/local): the singleton *)
(* that wraps the local Codewind connection and drives the start / stop /  *)
(* refresh lifecycle and the Theia readiness wait.                         *)
(*                                                                         *)
(* Every action is one run-to-completion segment of the TypeScript code:   *)
(* the code between two awaits.  The collaborators (CLILifecycleWrapper,   *)
(* ConnectionManager, Requester) answer each call with any outcome their   *)
(* signature allows.  The caller starts a public operation only when the   *)
(* promise of the previous one has settled (pc = "idle").                  *)
(***************************************************************************)
EXTENDS Integers, Sequences, FiniteSets, TLC

\* ---------------------------------------------------------------- bounds
MaxOps == 3          \* public operations called in one run
MaxOpsBeforeWait == 1   \* a readiness wait starts after at most this many operations
MaxInFlight == 2     \* Requester.ping calls pending at the same time
MaxExtraTicks == 2   \* timer ticks explored beyond maxTries + 1

\* ------------------------------------------------------------- constants
STOPPED == "Stopped"
STARTING == "Starting"
STARTED == "Started"
STOPPING == "Stopping"
ERR_CONNECTING == "ErrConnecting"
CodewindStates == {STOPPED, STARTING, STARTED, STOPPING, ERR_CONNECTING}

CHE_CW_URL == "https://localhost:9090"
Addrs == {"A", "B"}          \* addresses CLILifecycleWrapper.getCodewindUrl may report

timeoutS == 180
delayS == 2
maxTries == timeoutS \div delayS
\* Math.round(maxTries / 2): round half up
longerThanUsualTries == (maxTries + 1) \div 2

\* A vscode.Uri is an object: addr is its text, obj the object's identity.
NoUri == [addr |-> "", obj |-> 0]                    \* undefined
NoConnection == [id |-> 0, url |-> NoUri]            \* undefined

VARIABLES
    state,            \* _state
    localConnection,  \* _localConnection
    pc,               \* position of the operation the caller awaits
    cwUrl,            \* the cwUrl local / parameter of the operation called last
    detached,         \* connect() calls started by startCodewind and not awaited
    released,         \* ids of the connections that removeConnection has released
    removing,         \* id of the connection of the pending removeConnection call
    nextConn,         \* id of the next Connection that connectLocal creates
    nextUri,          \* identity of the next vscode.Uri object created
    tries,            \* the poll session's tries counter
    inFlight,         \* interval callbacks suspended in await Requester.ping
    newestPending,    \* the ping of the latest tick is one of them
    overlapped,       \* some tick of the session fired while a ping was pending
    timerActive,      \* the setInterval timer has not been cleared
    pollResult,       \* what waitingForReadyProm resolved with
    escalations,      \* onTheiaStartTimeout(false, ..) calls of the session
    cancelRequested,  \* the caller has asked to cancel the session
    ops,              \* public operations called so far
    h,                \* the operation called last: name, state before, outcome
    log,              \* collaborator / notifier calls of the operation called last
    out               \* calls made by the last step

lifecycleVars == <<state, localConnection, detached, released, removing, nextConn, nextUri>>
pollVars == <<tries, inFlight, newestPending, overlapped, timerActive, pollResult,
              escalations, cancelRequested>>
vars == <<state, localConnection, pc, cwUrl, detached, released, removing, nextConn,
          nextUri,
          tries, inFlight, newestPending, overlapped, timerActive, pollResult,
          escalations, cancelRequested, ops, h, log, out>>

Init ==
    /\ state = STOPPED
    /\ localConnection = NoConnection
    /\ pc = "idle"
    /\ cwUrl = NoUri
    /\ detached = {}
    /\ released = {}
    /\ removing = 0
    /\ nextConn = 1
    /\ nextUri = 1
    /\ tries = 0
    /\ inFlight = 0
    /\ newestPending = FALSE
    /\ overlapped = FALSE
    /\ timerActive = FALSE
    /\ pollResult = "none"
    /\ escalations = 0
    /\ cancelRequested = FALSE
    /\ ops = 0
    /\ h = [op |-> "none", preState |-> STOPPED, preConn |-> NoConnection, ret |-> "none"]
    /\ log = <<>>
    /\ out = <<>>

\* ---------------------------------------------------------------- helpers
\* the caller invokes a public operation
Call(name) ==
    /\ pc = "idle"
    /\ ops < MaxOps
    /\ ops' = ops + 1
    /\ h' = [op |-> name, preState |-> state, preConn |-> localConnection, ret |-> "pending"]

\* the operation's promise settles
Return(r) ==
    /\ pc' = "idle"
    /\ h' = [h EXCEPT !.ret = r]

\* calls made by the first step of an operation
EmitFirst(calls) == out' = calls /\ log' = calls
\* calls made by a later step of the awaited operation
Emit(calls) == out' = calls /\ log' = log \o calls
\* calls made by a step nobody awaits
EmitBg(calls) == out' = calls /\ UNCHANGED log

\* a Uri object created now (vscode.Uri.parse)
FreshUri(a) == [addr |-> a, obj |-> nextUri]

\* cwUrl !== this.localConnection.url : both operands are vscode.Uri objects,
\* so !== compares the references, not the addresses
UrlChanged(u, conn) == u.obj # conn.url.obj

\* the body of connect() after await connectLocal(cwUrl) has settled
connectSettled(u, ok) ==
    IF ok
    THEN /\ localConnection' = [id |-> nextConn, url |-> u]
         /\ nextConn' = nextConn + 1
         /\ state' = STARTED
    ELSE /\ state' = ERR_CONNECTING
         /\ UNCHANGED <<localConnection, nextConn>>

connectCalls(ok) == IF ok THEN <<"onChange">> ELSE <<"onChange", "showErrorMessage">>

\* ---------------------------------------------------------- startCodewind
\* startCodewind() up to await CLILifecycleWrapper.installAndStart()
startCodewind ==
    /\ Call("startCodewind")
    /\ pc' = "start_install"
    /\ cwUrl' = NoUri
    /\ EmitFirst(<<"installAndStart">>)
    /\ UNCHANGED <<lifecycleVars, pollVars>>

\* startInstallSettled without the isCancellation test: a cancellation is
\* reported like any other launch error
startInstallSettled_noCancelTest(r) ==
    /\ pc = "start_install"
    /\ IF r = "ok"
       THEN /\ pc' = "start_getUrl"
            /\ Emit(<<"getCodewindUrl">>)
            /\ UNCHANGED h
       ELSE /\ Return("void")
            /\ Emit(<<"showCLIError">>)
    /\ UNCHANGED <<lifecycleVars, pollVars, ops, cwUrl>>

\* installAndStart settles: r is "ok", "cancel" (user cancellation) or "error"
startInstallSettled(r) ==
    /\ pc = "start_install"
    /\ IF r = "ok"
       THEN /\ pc' = "start_getUrl"
            /\ Emit(<<"getCodewindUrl">>)
            /\ UNCHANGED h
       ELSE /\ Return("void")
            /\ Emit(IF r = "cancel" THEN <<>> ELSE <<"showCLIError">>)
    /\ UNCHANGED <<lifecycleVars, pollVars, ops, cwUrl>>

\* getCodewindUrl settles in startCodewindInner: a is an address, or
\* "undefined" (no URL), or "throw".  On a URL, connect(cwUrl) is called and
\* NOT awaited: it runs up to its await connectLocal and startCodewind returns.
startGetUrlSettled(a) ==
    /\ pc = "start_getUrl"
    /\ IF a \in Addrs
       THEN /\ cwUrl' = FreshUri(a)
            /\ detached' = detached \cup {FreshUri(a)}
            /\ nextUri' = nextUri + 1
            /\ Emit(<<"connectLocal">>)
            /\ UNCHANGED state
       ELSE /\ state' = ERR_CONNECTING
            /\ Emit(<<"onChange", "showCLIError">>)
            /\ UNCHANGED <<detached, nextUri, cwUrl>>
    /\ Return("void")
    /\ UNCHANGED <<localConnection, released, removing, nextConn, pollVars, ops>>

\* connectLocal settles for a connect() that startCodewind left running
detachedConnectSettled(u, ok) ==
    /\ u \in detached
    /\ detached' = detached \ {u}
    /\ connectSettled(u, ok)
    /\ EmitBg(connectCalls(ok))
    /\ UNCHANGED <<pc, cwUrl, released, removing, nextUri, pollVars, ops, h>>

\* ---------------------------------------------------------------- connect
\* the caller calls connect(cwUrl) with a Uri of its own
connect(a) ==
    /\ Call("connect")
    /\ pc' = "connect_bind"
    /\ cwUrl' = FreshUri(a)
    /\ nextUri' = nextUri + 1
    /\ EmitFirst(<<"connectLocal">>)
    /\ UNCHANGED <<state, localConnection, detached, released, removing, nextConn, pollVars>>

\* connectLocal settles for an awaited connect(): the one the caller called,
\* the one in refresh, the one in waitForCodewindToStartTheia
connectAwaitedSettled(ok) ==
    /\ pc \in {"connect_bind", "refresh_bind", "wait_bind"}
    /\ connectSettled(cwUrl, ok)
    /\ Emit(connectCalls(ok))
    /\ Return(IF pc = "refresh_bind" THEN "true" ELSE "void")
    /\ UNCHANGED <<detached, released, removing, nextUri, pollVars, ops, cwUrl>>

\* ----------------------------------------------------------- stopCodewind
stopCodewind ==
    /\ Call("stopCodewind")
    /\ pc' = "stop_wait"
    /\ cwUrl' = NoUri
    /\ EmitFirst(<<"stop">>)
    /\ UNCHANGED <<lifecycleVars, pollVars>>

\* CLILifecycleWrapper.stop() settles; a rejection leaves stopCodewind at once
stopSettled(ok) ==
    /\ pc = "stop_wait"
    /\ IF ok
       THEN localConnection' = NoConnection /\ Return("void")
       ELSE UNCHANGED localConnection /\ Return("rejected")
    /\ Emit(<<>>)
    /\ UNCHANGED <<state, detached, released, removing, nextConn, nextUri, pollVars, ops, cwUrl>>

\* ---------------------------------------------------------------- refresh
refresh ==
    /\ Call("refresh")
    /\ pc' = "refresh_getUrl"
    /\ cwUrl' = NoUri
    /\ EmitFirst(<<"getCodewindUrl">>)
    /\ UNCHANGED <<lifecycleVars, pollVars>>

\* getCodewindUrl settles in refresh with the Uri u (NoUri: undefined)
refreshDecide(u) ==
    /\ cwUrl' = u
    /\ IF localConnection # NoConnection /\ u # NoUri /\ UrlChanged(u, localConnection)
       THEN /\ pc' = "refresh_remove"
            /\ removing' = localConnection.id
            /\ Emit(<<"removeConnection">>)
            /\ UNCHANGED h
       ELSE /\ Return("false")
            /\ Emit(<<>>)
            /\ UNCHANGED removing

\* a is an address (a new Uri object), "same" (the very object the bound
\* connection holds), "undefined" or "throw"
refreshGetUrlSettled(a) ==
    /\ pc = "refresh_getUrl"
    /\ a = "same" => localConnection # NoConnection
    /\ IF a = "throw"
       THEN /\ Return("rejected")
            /\ Emit(<<>>)
            /\ UNCHANGED <<removing, nextUri, cwUrl>>
       ELSE /\ refreshDecide(IF a \in Addrs THEN FreshUri(a)
                             ELSE IF a = "same" THEN localConnection.url ELSE NoUri)
            /\ nextUri' = IF a \in Addrs THEN nextUri + 1 ELSE nextUri
    /\ UNCHANGED <<state, localConnection, detached, released, nextConn, pollVars, ops>>

\* removeConnection settles; then connect(cwUrl) runs up to await connectLocal
refreshRemoveSettled(ok) ==
    /\ pc = "refresh_remove"
    /\ removing' = 0
    /\ IF ok
       THEN /\ pc' = "refresh_bind"
            /\ released' = released \cup {removing}
            /\ Emit(<<"connectLocal">>)
            /\ UNCHANGED h
       ELSE /\ Return("rejected")
            /\ Emit(<<>>)
            /\ UNCHANGED released
    /\ UNCHANGED <<state, localConnection, detached, nextConn, nextUri, pollVars, ops, cwUrl>>

\* ------------------------------------------- waitForCodewindToStartTheia
\* up to await waitingForReadyProm: changeState(STARTING), Uri.parse, setInterval.
\* One poll session is modelled at a time: a new wait starts when the pings of
\* the previous session have settled.
waitForCodewindToStartTheia ==
    /\ Call("waitForCodewindToStartTheia")
    /\ ops <= MaxOpsBeforeWait
    /\ inFlight = 0
    /\ state' = STARTING
    /\ cwUrl' = FreshUri(CHE_CW_URL)
    /\ nextUri' = nextUri + 1
    /\ tries' = 0
    /\ timerActive' = TRUE
    /\ pollResult' = "none"
    /\ escalations' = 0
    /\ cancelRequested' = FALSE
    /\ pc' = "wait_poll"
    /\ EmitFirst(<<"onChange">>)
    /\ UNCHANGED <<localConnection, detached, released, removing, nextConn, inFlight,
                   newestPending, overlapped>>

\* the interval fires: tries++ and Requester.ping is called
tick ==
    /\ timerActive
    /\ inFlight < MaxInFlight
    /\ tries < maxTries + 1 + MaxExtraTicks
    /\ tries' = tries + 1
    /\ inFlight' = inFlight + 1
    /\ newestPending' = TRUE
    /\ overlapped' = (overlapped \/ inFlight > 0)
    /\ EmitBg(<<"ping">>)
    /\ UNCHANGED <<lifecycleVars, pc, cwUrl, timerActive, pollResult, escalations,
                   cancelRequested, ops, h>>

\* resolve(v) of waitingForReadyProm: only the first call has an effect
resolve(v) == pollResult' = IF pollResult = "none" THEN v ELSE pollResult

\* The poll session (the closure holding tries, interval and resolve) is
\* garbage once the wait has resumed and no interval callback is pending.
\* A callback that is still pending after the wait has resumed can only run
\* its longer-than-usual branch (resolve and clearInterval have no effect any
\* more), so such callbacks are followed only when tries = longerThanUsualTries.
dropSession ==
    /\ tries' = 0
    /\ inFlight' = 0
    /\ newestPending' = FALSE
    /\ overlapped' = FALSE
    /\ timerActive' = FALSE
    /\ pollResult' = "none"
    /\ escalations' = 0
    /\ cancelRequested' = FALSE

\* the branch an interval callback takes after await Requester.ping; r is
\* "true", "false" or "throw" (the callback's promise rejects and nothing
\* else of it runs)
pingBranch(r) ==
    IF r = "throw" THEN "none"
    ELSE IF r = "true" THEN "ready"
    ELSE IF tries > maxTries THEN "timedOut"
    ELSE IF tries = longerThanUsualTries THEN "longerThanUsual"
    ELSE "none"

\* a ping settles and its interval callback runs to the end; latest tells
\* whether it is the ping of the latest tick or an older one
pingSettled(r, latest) ==
    /\ inFlight > 0
    /\ IF latest THEN newestPending ELSE inFlight > (IF newestPending THEN 1 ELSE 0)
    /\ EmitBg(IF pingBranch(r) = "longerThanUsual"
              THEN <<"onTheiaStartTimeout(false)">> ELSE <<>>)
    /\ IF pc # "wait_poll" /\ inFlight = 1
       THEN dropSession
       ELSE /\ inFlight' = inFlight - 1
            /\ newestPending' = (newestPending /\ ~latest)
            /\ timerActive' = (timerActive /\ pingBranch(r) \notin {"ready", "timedOut"})
            /\ IF pingBranch(r) \in {"ready", "timedOut"}
               THEN resolve(pingBranch(r)) ELSE UNCHANGED pollResult
            /\ escalations' = escalations + (IF pingBranch(r) = "longerThanUsual" THEN 1 ELSE 0)
            /\ UNCHANGED <<tries, overlapped, cancelRequested>>
    /\ UNCHANGED <<lifecycleVars, pc, cwUrl, ops, h>>

\* waitResumed without the changeState(ERR_CONNECTING) of the timeout branch
waitResumed_noErrState ==
    /\ pc = "wait_poll"
    /\ pollResult # "none"
    /\ IF pollResult = "ready"
       THEN /\ pc' = "wait_bind"
            /\ Emit(<<"connectLocal">>)
            /\ UNCHANGED <<state, h>>
       ELSE /\ UNCHANGED state
            /\ Emit(<<"onTheiaStartTimeout(true)">>)
            /\ Return("void")
    /\ IF inFlight = 0 \/ tries # longerThanUsualTries
       THEN dropSession
       ELSE UNCHANGED pollVars
    /\ UNCHANGED <<localConnection, detached, released, removing, nextConn, nextUri, ops, cwUrl>>

\* waitingForReadyProm has resolved and waitForCodewindToStartTheia resumes
waitResumed ==
    /\ pc = "wait_poll"
    /\ pollResult # "none"
    /\ IF pollResult = "ready"
       THEN /\ pc' = "wait_bind"
            /\ Emit(<<"connectLocal">>)
            /\ UNCHANGED <<state, h>>
       ELSE /\ state' = ERR_CONNECTING
            /\ Emit(<<"onTheiaStartTimeout(true)", "onChange">>)
            /\ Return("void")
    /\ IF inFlight = 0 \/ tries # longerThanUsualTries
       THEN dropSession
       ELSE UNCHANGED pollVars
    /\ UNCHANGED <<localConnection, detached, released, removing, nextConn, nextUri, ops, cwUrl>>

\* The caller wants to cancel the wait.  The interval handle and the resolve
\* function are locals of the promise executor and the operation takes no
\* token, so the request reaches no code: it is only recorded.
cancelRequest ==
    /\ pc = "wait_poll"
    /\ pollResult = "none"
    /\ ~cancelRequested
    /\ cancelRequested' = TRUE
    /\ EmitBg(<<>>)
    /\ UNCHANGED <<lifecycleVars, pc, cwUrl, tries, inFlight, newestPending, overlapped,
                   timerActive, pollResult, escalations, ops, h>>

\* ------------------------------------------------------------------- Next
Next ==
    \/ startCodewind
    \/ \E r \in {"ok", "cancel", "error"} : startInstallSettled(r)
    \/ \E a \in Addrs \cup {"undefined", "throw"} : startGetUrlSettled(a)
    \/ \E u \in detached, ok \in BOOLEAN : detachedConnectSettled(u, ok)
    \/ \E a \in Addrs : connect(a)
    \/ \E ok \in BOOLEAN : connectAwaitedSettled(ok)
    \/ stopCodewind
    \/ \E ok \in BOOLEAN : stopSettled(ok)
    \/ refresh
    \/ \E a \in Addrs \cup {"same", "undefined", "throw"} : refreshGetUrlSettled(a)
    \/ \E ok \in BOOLEAN : refreshRemoveSettled(ok)
    \/ waitForCodewindToStartTheia
    \/ tick
    \/ \E r \in {"true", "false", "throw"}, latest \in BOOLEAN : pingSettled(r, latest)
    \/ waitResumed
    \/ cancelRequest

Spec == Init /\ [][Next]_vars

\* ----------------------------------------------------------------- claims
Has(calls, c) == \E i \in 1..Len(calls) : calls[i] = c
Count(calls, c) == Cardinality({i \in 1..Len(calls) : calls[i] = c})

\* no operation is in progress and nothing an operation started is pending
Quiescent == pc = "idle" /\ detached = {}

\* steps in which the promise of an operation settles
StartReturns == pc \in {"start_install", "start_getUrl"} /\ pc' = "idle"
StopReturns == pc = "stop_wait" /\ pc' = "idle"
RefreshReturns == pc \in {"refresh_getUrl", "refresh_remove", "refresh_bind"} /\ pc' = "idle"
\* steps in which connectLocal has failed and connect() runs its catch block
BindFails ==
    /\ nextConn' = nextConn
    /\ \/ pc \in {"connect_bind", "refresh_bind", "wait_bind"} /\ pc' = "idle"
       \/ detached' # detached /\ detached' \subseteq detached

\* C1: whenever no operation is running (and nothing an operation started is
\* still pending), the state is Started if and only if a local connection is
\* bound.
C1_StartedIffBound ==
    Quiescent => (state = STARTED <=> localConnection # NoConnection)

\* C2: when stopCodewind returns, whether CLILifecycleWrapper.stop succeeded
\* or failed, no connection is bound and the state is Stopped.
C2_StopAlwaysCleansUp ==
    [][StopReturns => (localConnection' = NoConnection /\ state' = STOPPED)]_vars

\* C3: when a connection is bound, the reported address differs from the bound
\* one and the collaborators succeed, refresh releases the old connection
\* exactly once, binds a new connection at the new address and returns true;
\* and refresh returns true only if it has rebound (never after a failed bind).
C3_RefreshTrueIffRebound ==
    [][RefreshReturns =>
        /\ ( /\ h.preConn # NoConnection
             /\ cwUrl' # NoUri
             /\ cwUrl'.addr # h.preConn.url.addr
             /\ h'.ret # "rejected"
             /\ ~Has(log', "showErrorMessage") )
           => ( /\ h'.ret = "true"
                /\ Count(log', "removeConnection") = 1
                /\ h.preConn.id \in released'
                /\ localConnection'.id \notin {0, h.preConn.id}
                /\ localConnection'.url = cwUrl' )
        /\ h'.ret = "true"
           => ( /\ localConnection'.id \notin {0, h.preConn.id}
                /\ localConnection'.url = cwUrl'
                /\ state' = STARTED )
    ]_vars

\* C4: when getCodewindUrl answers and no connection is bound or the reported
\* address equals the bound connection's address, refresh returns false with
\* no release, no bind, no notification and the state, the bound connection
\* and the registry unchanged.
C4_RefreshNoOp ==
    [][( /\ pc = "refresh_getUrl"
         /\ pc' # pc
         /\ h'.ret # "rejected"
         /\ \/ localConnection = NoConnection
            \/ cwUrl'.addr = localConnection.url.addr )
       => ( /\ h'.ret = "false"
            /\ out' = <<>>
            /\ UNCHANGED <<state, localConnection, released, removing>> )
    ]_vars

\* C5: a startCodewind called in state Started with a connection bound returns
\* without having called connectLocal and without a state-change notification,
\* the bound connection being the one bound before.
C5_StartWhenStartedIsNoOp ==
    [][( /\ StartReturns
         /\ h.preState = STARTED
         /\ h.preConn # NoConnection )
       => ( /\ ~Has(log', "connectLocal")
            /\ ~Has(log', "onChange")
            /\ localConnection' = h.preConn )
    ]_vars

\* C6: whenever connectLocal fails, connect leaves the state ErrorConnecting,
\* surfaces exactly one error and leaves no connection bound.
C6_BindFailureLeavesNothingBound ==
    [][BindFails =>
        /\ state' = ERR_CONNECTING
        /\ Count(out', "showErrorMessage") = 1
        /\ localConnection' = NoConnection
    ]_vars

\* C7: a session whose probes never succeed and never overlap resolves as
\* timed out having made exactly maxTries probe calls (90 for the built-in
\* interval 2 / timeout 180), and makes no probe call once it has resolved.
C7_TimesOutAfterMaxTries ==
    [][ /\ (pollResult' = "timedOut" /\ ~overlapped') => tries' = maxTries
        /\ pollResult = "timedOut" => ~Has(out', "ping")
    ]_vars

\* C8: when the first successful probe is the k-th call (k <= maxTries), the
\* session resolves as ready with exactly k probe calls started, that is the
\* successful probe is the latest one started, whatever the probe latency; and
\* no probe call is started once the session has resolved.
C8_ReadyAfterExactlyK ==
    [][ /\ (pollResult = "none" /\ pollResult' = "ready" /\ tries <= maxTries)
           => (newestPending /\ ~newestPending')
        /\ pollResult # "none" => ~Has(out', "ping")
    ]_vars

\* C9: in a session the 'taking longer than usual' escalation is emitted at
\* most once, whatever the probe results and latencies, and only at attempt
\* round(maxTries / 2).
C9_EscalatesAtMostOnce ==
    [][Has(out', "onTheiaStartTimeout(false)")
       => (escalations = 0 /\ tries = longerThanUsualTries)
    ]_vars

\* C10: once the caller has requested the cancellation of an in-flight session,
\* no probe call is made, the session resolves neither ready nor timed out, and
\* waitForCodewindToStartTheia neither calls connect nor sets ErrorConnecting.
C10_CancelStopsTheSession ==
    [][cancelRequested =>
        /\ ~Has(out', "ping")
        /\ pollResult' \notin {"ready", "timedOut"}
        /\ pc = "wait_poll" => (~Has(out', "connectLocal") /\ ~Has(out', "onTheiaStartTimeout(true)"))
    ]_vars

WaitStarts == pc = "idle" /\ pc' = "wait_poll"
WaitReturns == pc \in {"wait_poll", "wait_bind"} /\ pc' = "idle"

\* C11: waitForCodewindToStartTheia sets Starting before any probe call; when
\* the wait has timed out it returns without a connectLocal call, with exactly
\* one terminal failure notification and the state ErrorConnecting; when the
\* wait resolved ready it calls connect exactly once and returns with Started
\* or ErrorConnecting; it never returns with the state Starting.
C11_WaitEndsStartedOrError ==
    [][ /\ WaitStarts => (state' = STARTING /\ tries' = 0 /\ ~Has(out', "ping"))
        /\ (pc = "wait_poll" /\ pc' # "wait_poll" /\ pollResult = "ready")
           => (pc' = "wait_bind" /\ out' = <<"connectLocal">>)
        /\ (WaitReturns /\ pollResult = "timedOut")
           => ( /\ ~Has(log', "connectLocal")
                /\ Count(log', "onTheiaStartTimeout(true)") = 1
                /\ state' = ERR_CONNECTING )
        /\ (WaitReturns /\ pc = "wait_bind")
           => ( /\ Count(log', "connectLocal") = 1
                /\ ~Has(log', "onTheiaStartTimeout(true)")
                /\ state' \in {STARTED, ERR_CONNECTING} )
        /\ WaitReturns => state' # STARTING
    ]_vars

\* a wait that timed out has returned
C11_Witness ==
    /\ pc = "idle"
    /\ h.op = "waitForCodewindToStartTheia"
    /\ h.ret = "void"
    /\ Has(log, "onTheiaStartTimeout(true)")
    /\ state = ERR_CONNECTING

\* C12: when installAndStart fails with a user cancellation, startCodewind
\* returns with the state and the bound connection unchanged, without a
\* connect call and without notifying the operator.
C12_CancelledLaunchIsSilent ==
    [][startInstallSettled("cancel")
       => ( /\ pc' = "idle"
            /\ h'.ret = "void"
            /\ out' = <<>>
            /\ log' = <<"installAndStart">>
            /\ UNCHANGED <<state, localConnection, detached, released, removing, nextConn>> )
    ]_vars

\* a startCodewind whose launch was cancelled has returned
C12_Witness ==
    /\ pc = "idle"
    /\ h.op = "startCodewind"
    /\ h.ret = "void"
    /\ log = <<"installAndStart">>

\* C13: every genuine failure of a start attempt (a launch error that is not a
\* cancellation, no service address, a failed bind) leaves the state
\* ErrorConnecting, and connect is not called when the launch or the address
\* lookup failed.
C13_StartFailureIsErrorConnecting ==
    [][ /\ ( \/ startInstallSettled("error")
             \/ startGetUrlSettled("undefined")
             \/ startGetUrlSettled("throw") )
           => (state' = ERR_CONNECTING /\ ~Has(log', "connectLocal") /\ detached' = detached)
        /\ (\E u \in detached : detachedConnectSettled(u, FALSE))
           => state' = ERR_CONNECTING
    ]_vars

\* C14: no public operation rejects: whatever installAndStart, stop,
\* getCodewindUrl, connectLocal or removeConnection answer, the promise of
\* startCodewind, stopCodewind, refresh and connect resolves.
C14_NoOperationRejects ==
    h.op \in {"startCodewind", "stopCodewind", "refresh", "connect"} => h.ret # "rejected"

\* C15: at most one Requester.ping call is pending at any time.
C15_ProbesDoNotOverlap ==
    inFlight <= 1

\* C16: a ping that throws counts like a ping that returns false: once more
\* than maxTries attempts have been made and every ping has settled, the
\* session has resolved (so a session whose pings all throw ends timed out).
C16_ThrowingProbeCostsOneAttempt ==
    (pc = "wait_poll" /\ tries > maxTries /\ inFlight = 0) => pollResult # "none"

\* C17: no 'taking longer than usual' notification is emitted once the
\* session has resolved.
C17_NoEscalationAfterResolved ==
    [][pollResult # "none" => ~Has(out', "onTheiaStartTimeout(false)")]_vars

\* C18: once the state is ErrorConnecting it is left only through a start
\* (startCodewind and the connect it runs, a connect call, or
\* waitForCodewindToStartTheia); in particular no refresh and no stopCodewind
\* takes the state from ErrorConnecting to Started.
C18_ErrorConnectingIsTerminal ==
    [][(state = ERR_CONNECTING /\ state' # ERR_CONNECTING)
       => ( \/ detached' # detached
            \/ pc \in {"connect_bind", "wait_bind"}
            \/ WaitStarts )
    ]_vars

\* C19: with calls serialized on the operations' promises, once stopCodewind
\* has returned (its stop call having succeeded) and until the caller calls
\* another operation, no connection becomes bound and the state does not
\* become Started.
C19_NoBindAfterStop ==
    [][( /\ pc = "idle"
         /\ pc' = "idle"
         /\ h.op = "stopCodewind"
         /\ h.ret = "void" )
       => ( /\ localConnection' = NoConnection
            /\ state' = STARTED => state = STARTED )
    ]_vars

\* C20: whenever no operation is in progress, the bound connection, if any,
\* is not one that removeConnection has released.
C20_BoundConnectionNotReleased ==
    pc = "idle" => localConnection.id \notin released

====
